---- MODULE Spec2Model ----
(***************************************************************************)
(* A model of the x-ai-agent pipeline: the record store (database.py),     *)
(* the ingest loop and the enrichment calls (tweet_analyzer.py), the reply *)
(* operations (tweet_interactor.py, main.py) and the summary post          *)
(* (tweet_summarizer.py).                                                  *)
(*                                                                         *)
(* Text is a sequence of one-character strings, so that strip, split,      *)
(* replace, slicing and int() are computed as Python computes them.        *)
(***************************************************************************)
EXTENDS Integers, Sequences, FiniteSets, TLC

VARIABLES
    tweets,     \* the tweets table: the sequence of its rows in rowid order
    ipc,        \* ingester -> where it is in fetch_and_learn_tweets
    left,       \* ingester -> articles of the current batch not yet visited
    cur,        \* ingester -> the tweet_data extracted from the current article
    data,       \* ingester -> the enrichment results obtained so far
    saved,      \* ingester -> what save_tweet returned for the current article
    tsFlaky,    \* the Text Service calls that may fail in this run
    page,       \* what the articles of the page can yield in this run
    replies,    \* the replies table: the sequence of its rows in rowid order
    rpc,        \* where the replier is in reply_to_recent_tweets
    cands,      \* reply_to_recent_tweets' local list tweets
    pos,        \* the index in cands of the tweet being handled
    reply_text, \* reply_to_recent_tweets' local reply_text
    answer,     \* a Text Service answer given to one of the text functions
    fn,         \* the text function that was applied to answer, "-" before
    out,        \* what that function returned
    rt,         \* the locals of the reply_to_tweet call and where it is
    ps,         \* the locals of the post_summary call and where it is
    posts,      \* the posts table: the sequence of its rows in rowid order
    schema,     \* the tables of the database file: "none", "outdated", "current"
    agent,      \* where the TwitterAgent is: "new", "constructed", "logged_in",
                \* "started", "failed"
    clock,      \* the minutes since the scheduler was started
    jobs,       \* job id -> whether an instance runs, and its next run time
    cancelled,  \* whether the ingest was interrupted within an article, and
                \* the reply cycle between the click and save_reply
    load,       \* ingester -> the loading of the timeline: the attempts made,
                \* the articles found, whether it raised
    session     \* the browser session: "none", "logged_in", "closed"

ingestVars == <<ipc, left, cur, data, saved, tsFlaky, page>>
replyVars == <<replies, rpc, cands, pos, reply_text>>
textVars == <<answer, fn, out>>
callVars == <<rt, ps, posts>>
agentVars == <<schema, agent, clock, jobs, cancelled, load, session>>
vars == <<tweets, ingestVars, replyVars, textVars, callVars, agentVars>>

----------------------------------------------------------------------------
(* Bounds of the model *)

\* articles visited in one fetch_and_learn_tweets batch
MaxBatch == 2
\* rows of the replies table
MaxReplies == 2
\* characters of a Text Service answer to the insight score prompt
MaxScoreLen == 4
\* characters of a Text Service answer to the topics prompt
MaxTopicsLen == 7
\* characters of a Text Service answer to the tokens prompt
MaxTokensLen == 5
\* the lengths of the answers to the reply prompt: up to ShortReply, and from
\* ReplySlack below Twitter's 280 to ReplySlack above it
ShortReply == 3
ReplySlack == 8
\* the limit reply_to_recent_tweets gives get_most_insightful_recent_tweets,
\* 10 in tweet_interactor.py line 294, scaled to the model's three tweets
ReplyLimit == 2
\* the greatest limit given to get_recent_unreplied_tweets, whose default is
\* the 3 of database.py line 209
MaxLimit == 3
\* the minutes the scheduler is followed for
MaxMinutes == 120
\* elements of a scraped or derived list, and characters of one element
MaxListLen == 2
\* rows of the posts table
MaxPosts == 2
MaxElemLen == 2

----------------------------------------------------------------------------
(* Values *)

Ingesters == {"A", "B"}
TweetIds == {"t1", "t2"}
\* a failed call (an exception raised by the client), and Python's None: texts
\* are sequences of one-character strings, so neither is a text
Failure == <<"Failure">>
None == <<"None">>

SubCalls == {"summarize", "embed", "score", "topics", "tokens"}

Max(a, b) == IF a > b THEN a ELSE b
Min(a, b) == IF a < b THEN a ELSE b

----------------------------------------------------------------------------
(* Python's str operations on text *)

\* the characters str.strip() removes; only the space is what ' ' not in t sees
Whitespace == {" ", "\n"}
Digits == {"0", "1", "2", "3", "4", "5", "6", "7", "8", "9"}
UpperCase == {"A", "B", "C", "T"}

\* c.upper(), on the letters of the model's texts
Upper(c) ==
    CASE c = "a" -> "A" [] c = "b" -> "B" [] c = "c" -> "C" [] c = "t" -> "T"
      [] OTHER -> c
\* a replace chain that leaves the single quote in the reply
Quotes_double_only == {"\""}

\* the characters reply.replace(...) removes, tweet_interactor.py line 49
Quotes == {"\"", "'"}

DigitVal(c) ==
    CASE c = "0" -> 0 [] c = "1" -> 1 [] c = "2" -> 2 [] c = "3" -> 3
      [] c = "4" -> 4 [] c = "5" -> 5 [] c = "6" -> 6 [] c = "7" -> 7
      [] c = "8" -> 8 [] c = "9" -> 9

RECURSIVE LStrip(_)
LStrip(s) ==
    IF s # <<>> /\ Head(s) \in Whitespace THEN LStrip(Tail(s)) ELSE s

RECURSIVE RStrip(_)
RStrip(s) ==
    IF s # <<>> /\ s[Len(s)] \in Whitespace
    THEN RStrip(SubSeq(s, 1, Len(s) - 1))
    ELSE s

\* s.strip()
Strip(s) == RStrip(LStrip(s))

\* s.split(sep): "" splits to [""], and n separators give n + 1 pieces
RECURSIVE Split(_, _)
Split(s, sep) ==
    IF \A i \in 1..Len(s) : s[i] # sep
    THEN <<s>>
    ELSE LET p == CHOOSE i \in 1..Len(s) :
                    s[i] = sep /\ \A j \in 1..(i - 1) : s[j] # sep
         IN  <<SubSeq(s, 1, p - 1)>> \o Split(SubSeq(s, p + 1, Len(s)), sep)

\* s.replace(c, '') for every c of chars
Remove(s, chars) == SelectSeq(s, LAMBDA c : c \notin chars)

\* s[:n]
Slice(s, n) == SubSeq(s, 1, Min(n, Len(s)))

\* whether int(s) returns: surrounding whitespace, one sign, digits with single
\* underscores between them
IntParses(s) ==
    LET t == Strip(s)
        b == IF t # <<>> /\ Head(t) \in {"+", "-"} THEN Tail(t) ELSE t
    IN  /\ b # <<>>
        /\ \A i \in 1..Len(b) : b[i] \in Digits \cup {"_"}
        /\ b[1] \in Digits
        /\ b[Len(b)] \in Digits
        /\ \A i \in 1..(Len(b) - 1) : ~(b[i] = "_" /\ b[i + 1] = "_")

RECURSIVE DigitsValue(_, _)
DigitsValue(b, acc) ==
    IF b = <<>> THEN acc
    ELSE IF Head(b) = "_" THEN DigitsValue(Tail(b), acc)
    ELSE DigitsValue(Tail(b), 10 * acc + DigitVal(Head(b)))

\* the value of int(s), where IntParses(s)
IntValue(s) ==
    LET t == Strip(s)
    IN  IF Head(t) = "-" THEN 0 - DigitsValue(Tail(t), 0)
        ELSE IF Head(t) = "+" THEN DigitsValue(Tail(t), 0)
        ELSE DigitsValue(t, 0)

----------------------------------------------------------------------------
(* The enrichment and generation functions, as functions of what the Text  *)
(* Service answers: a text, None (a message with no content), or Failure   *)
(* (the client raises).                                                    *)

\* summarize_tweet without its except clause: the failure reaches the caller
summarize_tweet_no_default(resp) ==
    IF resp \in {Failure, None} THEN Failure ELSE Strip(resp)

\* TweetAnalyzer.summarize_tweet
summarize_tweet(resp) ==
    IF resp \in {Failure, None} THEN <<>> ELSE Strip(resp)

\* TweetAnalyzer.generate_embedding: the answer is a vector, not a text
generate_embedding(resp) ==
    IF resp \in {Failure, None} THEN <<>> ELSE resp

\* generate_insight_score without the max(0, min(100, score)) of line 131
generate_insight_score_unclamped(resp) ==
    IF resp \in {Failure, None} THEN 50
    ELSE IF IntParses(Strip(resp)) THEN IntValue(Strip(resp))
    ELSE 50

\* TweetAnalyzer.generate_insight_score
generate_insight_score(resp) ==
    IF resp \in {Failure, None} THEN 50
    ELSE LET score_str == Strip(resp)
         IN  IF IntParses(score_str)
             THEN Max(0, Min(100, IntValue(score_str)))
             ELSE 50

\* TweetAnalyzer.generate_topics
generate_topics(resp) ==
    IF resp \in {Failure, None} THEN <<>>
    ELSE LET topics_str == Strip(resp)
         IN  IF topics_str = <<>> THEN <<>>
             ELSE LET parts == Split(topics_str, ",")
                      topics == [i \in 1..Len(parts) |-> Strip(parts[i])]
                      kept == SelectSeq(topics,
                                  LAMBDA t : t # <<>> /\ \A i \in 1..Len(t) : t[i] # " ")
                  IN  Slice(kept, 3)

\* TweetAnalyzer.extract_tokens
extract_tokens(resp) ==
    IF resp \in {Failure, None} THEN <<>>
    ELSE LET tokens_str == Strip(resp)
         IN  IF tokens_str = <<>> THEN <<>>
             ELSE LET parts == Split(tokens_str, ",")
                      tokens == [i \in 1..Len(parts) |->
                                    [j \in 1..Len(Strip(parts[i])) |->
                                        Upper(Strip(parts[i])[j])]]
                  IN  SelectSeq(tokens, LAMBDA t : t # <<>>)

\* generate_reply cutting at 280 characters before it adds the dots
generate_reply_cut_late(resp) ==
    IF resp \in {Failure, None} THEN None
    ELSE LET reply == Remove(Strip(resp), Quotes)
         IN  IF Len(reply) > 280
             THEN Slice(reply, 280) \o <<".", ".", ".">>
             ELSE reply

\* TweetInteractor.generate_reply
generate_reply(resp) ==
    IF resp \in {Failure, None} THEN None
    ELSE LET reply == Remove(Strip(resp), Quotes)
         IN  IF Len(reply) > 280
             THEN Slice(reply, 277) \o <<".", ".", ".">>
             ELSE reply

\* TweetSummarizer.generate_summary_post, lines 111-123: the stripped answer,
\* "" when the call or the strip raises
generate_summary_post(resp) ==
    IF resp \in {Failure, None} THEN <<>> ELSE Strip(resp)

----------------------------------------------------------------------------
(* The record store: database.py *)

\* a store call that raises inside the store method (the database is locked,
\* the disk is full) is the call made with ok = FALSE

HasTweet(tbl, tweet_id) == \E i \in 1..Len(tbl) : tbl[i].tweet_id = tweet_id

\* TwitterDatabase.get_tweet_by_id: <<row>> for the row, and <<>> for the None
\* it returns when there is no row or the query raised
get_tweet_by_id(tbl, tweet_id, ok) ==
    IF ok /\ HasTweet(tbl, tweet_id)
    THEN <<tbl[CHOOSE i \in 1..Len(tbl) : tbl[i].tweet_id = tweet_id]>>
    ELSE <<>>

\* save_tweet on a table without the UNIQUE constraint on tweet_id
save_tweet_no_unique(tbl, row, ok) ==
    IF ok THEN Append(tbl, row) ELSE tbl

\* save_tweet with INSERT OR REPLACE
save_tweet_replace(tbl, row, ok) ==
    IF ~ok THEN tbl
    ELSE IF HasTweet(tbl, row.tweet_id)
    THEN [i \in 1..Len(tbl) |->
            IF tbl[i].tweet_id = row.tweet_id THEN row ELSE tbl[i]]
    ELSE Append(tbl, row)

\* TwitterDatabase.save_tweet: INSERT OR IGNORE under tweet_id TEXT UNIQUE
save_tweet(tbl, row, ok) ==
    IF ~ok THEN tbl
    ELSE IF HasTweet(tbl, row.tweet_id) THEN tbl
    ELSE Append(tbl, row)

\* what save_tweet returns: True when the statement ran (the row inserted or
\* ignored), False when it raised
save_tweet_returns(ok) == IF ok THEN "True" ELSE "False"

\* TwitterDatabase.save_reply: a plain INSERT
save_reply(rtbl, row, ok) == IF ok THEN Append(rtbl, row) ELSE rtbl

\* the rows of replies for a tweet, of any status
RepliesTo(rtbl, tweet_id) ==
    {i \in 1..Len(rtbl) : rtbl[i].original_tweet_id = tweet_id}

\* TwitterDatabase.has_replied_to_tweet: COUNT(*) > 0, and False when the
\* query raised
has_replied_to_tweet(rtbl, tweet_id, ok) ==
    ok /\ RepliesTo(rtbl, tweet_id) # {}

\* A timestamp is [day, hour] relative to the day of the query, whose time is
\* Now. tweets.timestamp holds the page's ISO text, "<date>T<time>Z", and
\* datetime('now', '-1 day') is "<date> <time>": SQLite compares the two as
\* text, and at equal dates 'T' is greater than ' ', so every time of the
\* cutoff's date is at or after the cutoff.
Now == [day |-> 0, hour |-> 12]
Cutoff == [day |-> Now.day - 1, hour |-> Now.hour]
AtOrAfterCutoff(ts) == ts.day >= Cutoff.day

\* the ISO texts of two tweets compare as their times do
Later(ts1, ts2) ==
    ts1.day > ts2.day \/ (ts1.day = ts2.day /\ ts1.hour > ts2.hour)

\* the orders of the rows idx of tbl that ORDER BY allows, before(a, b) being
\* "row a sorts strictly before row b"; rows that tie come in any order
Orderings(tbl, idx, before(_, _)) ==
    {p \in [1..Cardinality(idx) -> idx] :
        /\ \A a, b \in 1..Cardinality(idx) : a # b => p[a] # p[b]
        /\ \A a, b \in 1..Cardinality(idx) :
              a < b => ~before(tbl[p[b]], tbl[p[a]])}

\* ORDER BY timestamp DESC alone
ByScoreThenTime_time_only(r1, r2) == Later(r1.timestamp, r2.timestamp)

\* ORDER BY insight_score DESC, timestamp DESC
ByScoreThenTime(r1, r2) ==
    \/ r1.insight_score > r2.insight_score
    \/ r1.insight_score = r2.insight_score /\ Later(r1.timestamp, r2.timestamp)

\* TwitterDatabase.get_most_insightful_recent_tweets: the lists the query can
\* return, and [] when it raised
get_most_insightful_recent_tweets(tbl, limit, ok) ==
    IF ~ok THEN {<<>>}
    ELSE LET idx == {i \in 1..Len(tbl) : AtOrAfterCutoff(tbl[i].timestamp)}
         IN  {[j \in 1..Min(limit, Cardinality(idx)) |-> tbl[p[j]]] :
                 p \in Orderings(tbl, idx, ByScoreThenTime)}

\* ORDER BY timestamp DESC
ByTime(r1, r2) == Later(r1.timestamp, r2.timestamp)

\* TwitterDatabase.get_recent_tweets: the lists the query can return
get_recent_tweets(tbl, limit) ==
    LET idx == 1..Len(tbl)
    IN  {[j \in 1..Min(limit, Cardinality(idx)) |-> tbl[p[j]]] :
            p \in Orderings(tbl, idx, ByTime)}

\* whether sub occurs in s: s LIKE '%sub%'
Contains(s, sub) ==
    \E i \in 0..(Len(s) - Len(sub)) :
        \A j \in 1..Len(sub) : s[i + j] = sub[j]

ImportantAuthors == {"elonmusk", "VitalikButerin", "SBF_FTX", "cz_binance"}

\* database.py lines 232-241, on contents in lower case; the keywords that
\* the model's contents can hold
QuestionLike(content) ==
    \/ Contains(content, <<"?">>)
    \/ Contains(content, <<"w", "h", "o">>)
    \/ Contains(content, <<"h", "o", "w">>)

\* the CASE with the question mark ranked above the allow-list
Priority_question_first(row) ==
    IF Contains(row.content, <<"?">>) THEN 1
    ELSE IF row.author \in ImportantAuthors THEN 2
    ELSE 3

\* the CASE of the ORDER BY, database.py lines 245-249
Priority(row) ==
    IF row.author \in ImportantAuthors THEN 1
    ELSE IF Contains(row.content, <<"?">>) THEN 2
    ELSE 3

ByPriorityThenTime(r1, r2) ==
    \/ Priority(r1) < Priority(r2)
    \/ Priority(r1) = Priority(r2) /\ Later(r1.timestamp, r2.timestamp)

\* TwitterDatabase.get_recent_unreplied_tweets, with hours = 24: the lists
\* the query can return, and [] when it raised
get_recent_unreplied_tweets(tbl, rtbl, limit, ok) ==
    IF ~ok THEN {<<>>}
    ELSE LET idx == {i \in 1..Len(tbl) :
                        /\ RepliesTo(rtbl, tbl[i].tweet_id) = {}
                        /\ AtOrAfterCutoff(tbl[i].timestamp)
                        /\ \/ tbl[i].author \in ImportantAuthors
                           \/ QuestionLike(tbl[i].content)}
         IN  {[j \in 1..Min(limit, Cardinality(idx)) |-> tbl[p[j]]] :
                 p \in Orderings(tbl, idx, ByPriorityThenTime)}

----------------------------------------------------------------------------
(* The ingest loop: TweetAnalyzer.fetch_and_learn_tweets *)

\* what page.evaluate extracts from an article; tweet_id "" is the null of an
\* article without a status link
RawPosts == [tweet_id : TweetIds \cup {""}, content : {<<"c">>, <<>>},
             author : {"alice"}, timestamp : {[day |-> 0, hour |-> 6]}]
\* the raw posts of articles that have a text
TextPosts == {p \in RawPosts : p.content # <<>>}

NoPost == [tweet_id |-> "", content |-> <<>>, author |-> "",
           timestamp |-> [day |-> 0, hour |-> 0]]
\* failed: the enrichment calls of the current article in which the client
\* raised, and "lookup" when the query of get_tweet_by_id raised for it
NoData == [summary |-> None, embedding |-> None, insight_score |-> None,
           topics |-> None, tokens |-> None, failed |-> {}]

Raised(resp, call) == IF resp = Failure THEN {call} ELSE {}

\* what the Text Service can answer to each call
Answers(call) ==
    (CASE call = "summarize" -> {<<"s">>}
       [] call = "embed" -> {<<"0.1">>}
       [] call = "score" -> {<<"8", "5">>}
       [] call = "topics" -> {<<"a", "i">>}
       [] call = "tokens" -> {<<"B", "T", "C">>})
    \cup (IF call \in tsFlaky THEN {Failure} ELSE {})

\* the row save_tweet is given
Row(post, d) ==
    [tweet_id |-> post.tweet_id, content |-> post.content,
     author |-> post.author, timestamp |-> post.timestamp,
     summary |-> d.summary, embedding |-> d.embedding,
     insight_score |-> d.insight_score, topics |-> d.topics,
     tokens |-> d.tokens]

\* lines 230-291: the page is loaded and articles are found
StartBatch(w) ==
    /\ ipc[w] = "idle"
    /\ \E n \in 1..MaxBatch : left' = [left EXCEPT ![w] = n]
    /\ ipc' = [ipc EXCEPT ![w] = "extract"]
    /\ UNCHANGED <<tweets, cur, data, saved, tsFlaky, page, replyVars, textVars, callVars, agentVars>>

\* lines 293-335: the next article, its extraction, the tweet_id check
Extract(w) ==
    /\ ipc[w] = "extract"
    /\ IF left[w] = 0
       THEN /\ ipc' = [ipc EXCEPT ![w] = "idle"]
            /\ UNCHANGED <<left, cur, data, saved>>
       ELSE /\ left' = [left EXCEPT ![w] = left[w] - 1]
            /\ data' = [data EXCEPT ![w] = NoData]
            /\ saved' = [saved EXCEPT ![w] = "-"]
            /\ \E raw \in page, raised \in BOOLEAN :
                 IF raised \/ raw.tweet_id = ""
                 THEN /\ cur' = [cur EXCEPT ![w] = NoPost]
                      /\ UNCHANGED ipc
                 ELSE /\ cur' = [cur EXCEPT ![w] = raw]
                      /\ ipc' = [ipc EXCEPT ![w] = "lookup"]
    /\ UNCHANGED <<tweets, tsFlaky, page, replyVars, textVars, callVars, agentVars>>

\* lines 343-346: skip a tweet that is already stored
Lookup(w) ==
    /\ ipc[w] = "lookup"
    /\ \E ok \in BOOLEAN :
         /\ IF get_tweet_by_id(tweets, cur[w].tweet_id, ok) # <<>>
            THEN ipc' = [ipc EXCEPT ![w] = "extract"]
            ELSE ipc' = [ipc EXCEPT ![w] = "summarize"]
         /\ data' = [data EXCEPT ![w].failed =
                                     @ \cup (IF ok THEN {} ELSE {"lookup"})]
    /\ UNCHANGED <<tweets, left, cur, saved, tsFlaky, page, replyVars, textVars, callVars, agentVars>>

\* line 349
Summarize(w) ==
    /\ ipc[w] = "summarize"
    /\ \E resp \in Answers("summarize") :
         data' = [data EXCEPT ![w].summary = summarize_tweet(resp),
                              ![w].failed = @ \cup Raised(resp, "summarize")]
    /\ ipc' = [ipc EXCEPT ![w] = "embed"]
    /\ UNCHANGED <<tweets, left, cur, saved, tsFlaky, page, replyVars, textVars, callVars, agentVars>>

\* line 350
Embed(w) ==
    /\ ipc[w] = "embed"
    /\ \E resp \in Answers("embed") :
         data' = [data EXCEPT ![w].embedding = generate_embedding(resp),
                              ![w].failed = @ \cup Raised(resp, "embed")]
    /\ ipc' = [ipc EXCEPT ![w] = "score"]
    /\ UNCHANGED <<tweets, left, cur, saved, tsFlaky, page, replyVars, textVars, callVars, agentVars>>

\* line 351
Score(w) ==
    /\ ipc[w] = "score"
    /\ \E resp \in Answers("score") :
         data' = [data EXCEPT ![w].insight_score = generate_insight_score(resp),
                              ![w].failed = @ \cup Raised(resp, "score")]
    /\ ipc' = [ipc EXCEPT ![w] = "topics"]
    /\ UNCHANGED <<tweets, left, cur, saved, tsFlaky, page, replyVars, textVars, callVars, agentVars>>

\* line 352
Topics(w) ==
    /\ ipc[w] = "topics"
    /\ \E resp \in Answers("topics") :
         data' = [data EXCEPT ![w].topics = generate_topics(resp),
                              ![w].failed = @ \cup Raised(resp, "topics")]
    /\ ipc' = [ipc EXCEPT ![w] = "tokens"]
    /\ UNCHANGED <<tweets, left, cur, saved, tsFlaky, page, replyVars, textVars, callVars, agentVars>>

\* line 353
Tokens(w) ==
    /\ ipc[w] = "tokens"
    /\ \E resp \in Answers("tokens") :
         data' = [data EXCEPT ![w].tokens = extract_tokens(resp),
                              ![w].failed = @ \cup Raised(resp, "tokens")]
    /\ ipc' = [ipc EXCEPT ![w] = "save"]
    /\ UNCHANGED <<tweets, left, cur, saved, tsFlaky, page, replyVars, textVars, callVars, agentVars>>

\* the row saved as soon as the topics are there, before extract_tokens
SaveTweet_before_tokens(w) ==
    /\ ipc[w] = "tokens"
    /\ \E ok \in BOOLEAN :
         /\ tweets' = save_tweet(tweets, Row(cur[w], data[w]), ok)
         /\ saved' = [saved EXCEPT ![w] = save_tweet_returns(ok)]
    /\ ipc' = [ipc EXCEPT ![w] = "extract"]
    /\ UNCHANGED <<left, cur, data, tsFlaky, page, replyVars, textVars, callVars, agentVars>>

\* lines 355-369: the row is built and saved, whatever save_tweet returns;
\* tweet_data and the results stay bound until the next article
SaveTweet(w) ==
    /\ ipc[w] = "save"
    /\ \E ok \in BOOLEAN :
         /\ tweets' = save_tweet(tweets, Row(cur[w], data[w]), ok)
         /\ saved' = [saved EXCEPT ![w] = save_tweet_returns(ok)]
    /\ ipc' = [ipc EXCEPT ![w] = "extract"]
    /\ UNCHANGED <<left, cur, data, tsFlaky, page, replyVars, textVars, callVars, agentVars>>

IngestIdle(running, flaky, articles) ==
    /\ ipc = [w \in Ingesters |-> IF w \in running THEN "idle" ELSE "off"]
    /\ left = [w \in Ingesters |-> 0]
    /\ cur = [w \in Ingesters |-> NoPost]
    /\ data = [w \in Ingesters |-> NoData]
    /\ saved = [w \in Ingesters |-> "-"]
    /\ tsFlaky = flaky
    /\ page = articles

NextIngest ==
    \E w \in Ingesters :
        \/ StartBatch(w)
        \/ Extract(w)
        \/ Lookup(w)
        \/ Summarize(w)
        \/ Embed(w)
        \/ Score(w)
        \/ Topics(w)
        \/ Tokens(w)
        \/ SaveTweet(w)

----------------------------------------------------------------------------
(* The loading of the timeline by fetch_and_learn_tweets, step by step *)

\* max_retries of fetch_and_learn_tweets
load_max_retries == 3

\* no attempt made yet: `articles = None` of line 255
NoLoad == [attempts |-> 0, articles |-> 0, raised |-> FALSE]

\* a loop that always has a next attempt
HasNextAttempt_always(attempts) == TRUE

\* range(max_retries) at line 257 and `attempt < max_retries - 1` at line
\* 284, for the number of attempts made so far
HasNextAttempt(attempts) == attempts < load_max_retries

\* lines 377-379: the exception is logged and raised to the caller
LoadRaise(w, attempts) ==
    /\ ipc' = [ipc EXCEPT ![w] = "idle"]
    /\ load' = [load EXCEPT ![w] = [attempts |-> attempts, articles |-> 0,
                                    raised |-> TRUE]]
    /\ UNCHANGED left

\* lines 231-250: page.goto, the wait for the primary column, whose failure
\* is only logged, and the wait of five seconds
LoadGoto(w) ==
    /\ ipc[w] = "idle"
    /\ \E ok \in BOOLEAN :
         IF ok
         THEN /\ ipc' = [ipc EXCEPT ![w] = "load"]
              /\ load' = [load EXCEPT ![w] = NoLoad]
              /\ UNCHANGED left
         ELSE LoadRaise(w, 0)
    /\ UNCHANGED <<tweets, cur, data, saved, tsFlaky, page, replyVars,
                   textVars, callVars, schema, agent, clock, jobs, cancelled,
                   session>>

\* lines 257-291: one attempt. It finds n articles, or a step of it raises.
\* A non-empty list ends the loop and the ingest starts on it; an empty one
\* leads to the next attempt and, after the last, to "No tweets found"; an
\* exception leads to the wait and, after the last attempt, to the raise of
\* line 287
LoadAttempt(w) ==
    /\ ipc[w] = "load"
    /\ LET made == load[w].attempts + 1
       IN  \E found \in (0..MaxBatch) \cup {-1} :
             IF found > 0
             THEN /\ load' = [load EXCEPT ![w].attempts = made,
                                          ![w].articles = found]
                  /\ left' = [left EXCEPT ![w] = found]
                  /\ ipc' = [ipc EXCEPT ![w] = "extract"]
             ELSE IF HasNextAttempt(made)
             THEN /\ load' = [load EXCEPT ![w].attempts = made]
                  /\ ipc' = [ipc EXCEPT ![w] =
                                 IF found = 0 THEN "load" ELSE "load_wait"]
                  /\ UNCHANGED left
             ELSE LoadRaise(w, made)
    /\ UNCHANGED <<tweets, cur, data, saved, tsFlaky, page, replyVars,
                   textVars, callVars, schema, agent, clock, jobs, cancelled,
                   session>>

\* lines 284-286: the wait of three seconds before the next attempt; when it
\* raises, the handler of line 377 follows
LoadWait(w) ==
    /\ ipc[w] = "load_wait"
    /\ \E ok \in BOOLEAN :
         IF ok
         THEN /\ ipc' = [ipc EXCEPT ![w] = "load"]
              /\ UNCHANGED <<load, left>>
         ELSE LoadRaise(w, load[w].attempts)
    /\ UNCHANGED <<tweets, cur, data, saved, tsFlaky, page, replyVars,
                   textVars, callVars, schema, agent, clock, jobs, cancelled,
                   session>>

NextLoad ==
    \E w \in Ingesters :
        \/ LoadGoto(w)
        \/ LoadAttempt(w)
        \/ LoadWait(w)
        \/ Extract(w)
        \/ Lookup(w)
        \/ Summarize(w)
        \/ Embed(w)
        \/ Score(w)
        \/ Topics(w)
        \/ Tokens(w)
        \/ SaveTweet(w)

----------------------------------------------------------------------------
(* The reply operations: tweet_interactor.py and main.py *)

\* what the Text Service can answer to generate_reply's prompt; the second
\* answer is empty once its quotation marks are removed
ReplyAnswers == {<<"o", "k">>, <<"\"", "\"">>, Failure}

ReplyRow(tweet_id, text, status) ==
    [original_tweet_id |-> tweet_id, reply_content |-> text, status |-> status]

\* an iteration whose end is the end of the loop
NextCandidate_end_cycle ==
    /\ pos' = 0
    /\ rpc' = "idle"
    /\ cands' = <<>>

\* the end of one iteration of the loop of reply_to_recent_tweets
NextCandidate ==
    IF pos < Len(cands)
    THEN /\ pos' = pos + 1
         /\ rpc' = "check"
         /\ UNCHANGED cands
    ELSE /\ pos' = 0
         /\ rpc' = "idle"
         /\ cands' = <<>>

\* lines 292-298: the query and the early return
ReplySelect ==
    /\ rpc = "idle"
    /\ \E ok \in BOOLEAN :
         \E list \in get_most_insightful_recent_tweets(tweets, ReplyLimit, ok) :
            IF list = <<>>
            THEN UNCHANGED <<rpc, cands, pos>>
            ELSE /\ cands' = list
                 /\ pos' = 1
                 /\ rpc' = "check"
    /\ UNCHANGED <<tweets, ingestVars, replies, reply_text, textVars, callVars, agentVars>>

\* the threshold with < in place of <=
ScoreTooLow_strict(tweet) == tweet.insight_score < 50

\* line 311: tweet.get('insight_score', 0) <= 50
ScoreTooLow(tweet) == tweet.insight_score <= 50

\* lines 302-313: the reply check and the score threshold
ReplyCheck ==
    /\ rpc = "check"
    /\ \E ok \in BOOLEAN :
         IF has_replied_to_tweet(replies, cands[pos].tweet_id, ok)
         THEN NextCandidate
         ELSE IF ScoreTooLow(cands[pos])
         THEN NextCandidate
         ELSE /\ rpc' = "generate"
              /\ UNCHANGED <<cands, pos>>
    /\ UNCHANGED <<tweets, ingestVars, replies, reply_text, textVars, callVars, agentVars>>

\* lines 315-318
ReplyGenerate ==
    /\ rpc = "generate"
    /\ \E r \in ReplyAnswers :
         /\ reply_text' = generate_reply(r)
         /\ IF generate_reply(r) \in {None, <<>>}
            THEN NextCandidate
            ELSE /\ rpc' = "page"
                 /\ UNCHANGED <<cands, pos>>
    /\ UNCHANGED <<tweets, ingestVars, replies, textVars, callVars, agentVars>>

\* lines 320-349: the page steps up to the enabled tweet button; a missing
\* element, a disabled button or a raised step ends the iteration
ReplyPage ==
    /\ rpc = "page"
    /\ \E ok \in BOOLEAN :
         IF ok
         THEN /\ rpc' = "click"
              /\ UNCHANGED <<cands, pos>>
         ELSE NextCandidate
    /\ UNCHANGED <<tweets, ingestVars, replies, reply_text, textVars, callVars, agentVars>>

\* lines 351-352: the click that submits the reply
ReplyClick ==
    /\ rpc = "click"
    /\ \E ok \in BOOLEAN :
         IF ok
         THEN /\ rpc' = "save"
              /\ UNCHANGED <<cands, pos>>
         ELSE NextCandidate
    /\ UNCHANGED <<tweets, ingestVars, replies, reply_text, textVars, callVars, agentVars>>

\* lines 354-365: the reply row, whatever save_reply returns
ReplySave ==
    /\ rpc = "save"
    /\ Len(replies) < MaxReplies
    /\ \E ok \in BOOLEAN :
         replies' = save_reply(replies,
                        ReplyRow(cands[pos].tweet_id, reply_text, "sent"), ok)
    /\ rpc' = "delay"
    /\ UNCHANGED <<tweets, ingestVars, cands, pos, reply_text, textVars, callVars, agentVars>>

\* lines 367-368: the delay between replies
ReplyDelay ==
    /\ rpc = "delay"
    /\ NextCandidate
    /\ UNCHANGED <<tweets, ingestVars, replies, reply_text, textVars, callVars, agentVars>>

\* TweetInteractor.reply_to_tweet, for the tweet_data of a stored tweet: the
\* reply is generated, the page steps and the click run, the posting is
\* verified, and only then the row is saved
ReplyToTweet ==
    /\ rpc = "idle"
    /\ Len(replies) < MaxReplies
    /\ \E i \in 1..Len(tweets), r \in ReplyAnswers :
       \E pageOk, clickOk, verified, saveOk \in BOOLEAN :
         LET reply_content == generate_reply(r)
         IN  IF /\ reply_content \notin {None, <<>>}
                /\ pageOk /\ clickOk /\ verified
             THEN replies' = save_reply(replies,
                                 ReplyRow(tweets[i].tweet_id, reply_content,
                                          "posted"), saveOk)
             ELSE UNCHANGED replies
    /\ UNCHANGED <<tweets, ingestVars, rpc, cands, pos, reply_text, textVars, callVars, agentVars>>

RECURSIVE SaveAll(_, _, _)
\* the rows of list whose index is in oks, saved in the order of list
SaveAll(rtbl, list, oks) ==
    IF list = <<>> THEN rtbl
    ELSE SaveAll(save_reply(rtbl,
                     ReplyRow(list[1].tweet_id, <<"o", "k">>, "posted"),
                     1 \in oks),
                 Tail(list), {i - 1 : i \in oks \ {1}})

\* TwitterAgent.reply_to_tweets: the first m recent tweets are handled before
\* a raised call ends the cycle, and each save_reply may fail
reply_to_tweets ==
    \E recent_tweets \in get_recent_tweets(tweets, 5) :
    \E m \in 0..Len(recent_tweets) :
    \E oks \in SUBSET (1..m) :
       /\ Len(replies) + Cardinality(oks) <= MaxReplies
       /\ replies' = SaveAll(replies, SubSeq(recent_tweets, 1, m), oks)

AgentReplyToTweets ==
    /\ rpc = "idle"
    /\ reply_to_tweets
    /\ UNCHANGED <<tweets, ingestVars, rpc, cands, pos, reply_text, textVars, callVars, agentVars>>

NextReply ==
    \/ ReplySelect
    \/ ReplyCheck
    \/ ReplyGenerate
    \/ ReplyPage
    \/ ReplyClick
    \/ ReplySave
    \/ ReplyDelay
    \/ ReplyToTweet
    \/ AgentReplyToTweets

ReplyIdle ==
    /\ replies = <<>>
    /\ rpc = "idle"
    /\ cands = <<>>
    /\ pos = 0
    /\ reply_text = None

TextIdle ==
    /\ answer = None
    /\ fn = "-"
    /\ out = None

----------------------------------------------------------------------------
(* One call of TweetInteractor.reply_to_tweet, step by step *)

NoReplyCall ==
    [pc |-> "idle", tweet_id |-> "", reply_content |-> None, gens |-> 0,
     sel |-> 0, returned |-> "-", before |-> 0]

\* the page steps of reply_to_tweet in their order, each with the number of
\* selectors or methods it tries in turn: the two page.goto, the reply
\* button selectors, the ways of clicking it, the input selectors, the ways
\* of typing, the tweet button selectors, the ways of clicking it, the
\* success indicators
Alternatives ==
    [navigate |-> 2, button |-> 5, open |-> 3, input |-> 4, fill |-> 3,
     tweet_button |-> 5, click |-> 3, verify |-> 3]
StepAfter ==
    [navigate |-> "button", button |-> "open", open |-> "input",
     input |-> "fill", fill |-> "tweet_button", tweet_button |-> "click",
     click |-> "verify", verify |-> "save"]

\* return value: the call is over and rt keeps what it returned
RtReturn(value) ==
    rt' = [rt EXCEPT !.pc = "done", !.returned = value]

\* the call starts for the tweet_data of a stored tweet; gens counts the
\* content generations of the call, before is the size of the replies table
\* when the call starts
RtCall ==
    /\ rt.pc = "idle"
    /\ Len(replies) < MaxReplies
    /\ \E i \in 1..Len(tweets) :
         rt' = [NoReplyCall EXCEPT !.pc = "generate",
                                   !.tweet_id = tweets[i].tweet_id,
                                   !.before = Len(replies)]
    /\ UNCHANGED <<tweets, ingestVars, replyVars, textVars, ps, posts, agentVars>>

\* lines 63-67
RtGenerate ==
    /\ rt.pc = "generate"
    /\ \E r \in ReplyAnswers :
         IF generate_reply(r) \in {None, <<>>}
         THEN rt' = [rt EXCEPT !.pc = "done", !.returned = "False",
                               !.reply_content = generate_reply(r),
                               !.gens = @ + 1]
         ELSE rt' = [rt EXCEPT !.pc = "navigate",
                               !.reply_content = generate_reply(r),
                               !.gens = @ + 1]
    /\ UNCHANGED <<tweets, ingestVars, replyVars, textVars, ps, posts, agentVars>>

\* one try of the page step at: it succeeds and the next step follows; or it
\* fails and the next selector or method is tried, False being returned
\* after the last; or a wait, a screenshot or a disabled button ends the call
RtTry(at) ==
    /\ rt.pc = at
    /\ \E outcome \in {"ok", "failed", "ended"} :
         IF outcome = "ok"
         THEN rt' = [rt EXCEPT !.pc = StepAfter[at], !.sel = 0]
         ELSE IF outcome = "failed" /\ rt.sel + 1 < Alternatives[at]
         THEN rt' = [rt EXCEPT !.sel = @ + 1]
         ELSE RtReturn("False")
    /\ UNCHANGED <<tweets, ingestVars, replyVars, textVars, ps, posts, agentVars>>

\* lines 71-93
RtNavigate == RtTry("navigate")
\* lines 95-119
RtButton == RtTry("button")
\* lines 121-141
RtOpen == RtTry("open")
\* lines 143-166
RtInput == RtTry("input")
\* lines 168-193
RtFill == RtTry("fill")
\* lines 195-228
RtTweetButton == RtTry("tweet_button")
\* lines 230-246
RtClick == RtTry("click")
\* lines 248-267
RtVerify == RtTry("verify")

\* lines 269-279: the row is saved and True returned, whatever save_reply
\* returns
RtSave ==
    /\ rt.pc = "save"
    /\ \E ok \in BOOLEAN :
         replies' = save_reply(replies,
                        ReplyRow(rt.tweet_id, rt.reply_content, "posted"), ok)
    /\ RtReturn("True")
    /\ UNCHANGED <<tweets, ingestVars, rpc, cands, pos, reply_text, textVars,
                   ps, posts, agentVars>>

\* the caller has the result
RtDone ==
    /\ rt.pc = "done"
    /\ rt' = NoReplyCall
    /\ UNCHANGED <<tweets, ingestVars, replyVars, textVars, ps, posts, agentVars>>

NextReplyToTweet ==
    \/ RtCall
    \/ RtGenerate
    \/ RtNavigate
    \/ RtButton
    \/ RtOpen
    \/ RtInput
    \/ RtFill
    \/ RtTweetButton
    \/ RtClick
    \/ RtVerify
    \/ RtSave
    \/ RtDone

----------------------------------------------------------------------------
(* One call of TweetSummarizer.post_summary, step by step *)

\* max_retries of post_summary
max_retries == 3

NoPostCall ==
    [pc |-> "idle", interactions |-> <<>>, summary |-> None, gens |-> 0,
     attempt |-> 0, nav |-> 0, clicks |-> 0, returned |-> "-", before |-> 0]

\* what the Text Service can answer to the summary prompt; the second answer
\* is empty once stripped
SummaryAnswers == {<<"h", "i">>, <<" ">>, Failure}

\* post_data of lines 212-217 and 258-263; source_tweets stands for the JSON
\* text of this list
PostRow(text, interactions) ==
    [content |-> text,
     source_tweets |-> [i \in 1..Len(interactions) |->
                           interactions[i].original_tweet],
     status |-> "posted"]

\* TwitterDatabase.save_post: the row is inserted unless the INSERT raises
save_post(ptbl, row, ok) == IF ok THEN Append(ptbl, row) ELSE ptbl

\* the join of get_recent_learnings, lines 26-50: one interaction for each
\* reply, latest first, whose original tweet is stored and which is younger
\* than the threshold
Interactions(recent) ==
    LET joined == SelectSeq(replies, LAMBDA r :
                      recent /\ HasTweet(tweets, r.original_tweet_id))
        original(r) ==
            tweets[CHOOSE i \in 1..Len(tweets) :
                       tweets[i].tweet_id = r.original_tweet_id]
    IN  [i \in 1..Len(joined) |->
            LET r == joined[Len(joined) + 1 - i]
            IN  [reply |-> r.reply_content,
                 original_tweet |-> original(r).content,
                 author |-> original(r).author,
                 summary |-> original(r).summary]]

\* TweetSummarizer.get_recent_learnings: {} when the query raises
get_recent_learnings(recent, ok) ==
    IF ok THEN Interactions(recent) ELSE <<>>

PsReturn(value) ==
    ps' = [ps EXCEPT !.pc = "done", !.returned = value]

\* where the loop goes on after the wait that follows a failed attempt
RetryFrom_generate == "generate"
RetryFrom == "goto"

\* lines 223-275: an attempt failed; after the last one the alternative
\* method follows, after the others the wait
PsAttemptFailed ==
    IF ps.attempt = max_retries - 1
    THEN ps' = [ps EXCEPT !.pc = "alternative"]
    ELSE ps' = [ps EXCEPT !.pc = "wait"]

\* the call starts; gens counts the content generations of the call, clicks
\* the clicks on a tweet button, before is the size of the posts table when
\* the call starts
PsCall ==
    /\ ps.pc = "idle"
    /\ Len(posts) < MaxPosts
    /\ ps' = [NoPostCall EXCEPT !.pc = "learnings", !.before = Len(posts)]
    /\ UNCHANGED <<tweets, ingestVars, replyVars, textVars, rt, posts, agentVars>>

\* lines 128-132
PsLearnings ==
    /\ ps.pc = "learnings"
    /\ \E recent, ok \in BOOLEAN :
         IF get_recent_learnings(recent, ok) = <<>>
         THEN PsReturn("False")
         ELSE ps' = [ps EXCEPT !.pc = "generate",
                               !.interactions = get_recent_learnings(recent, ok)]
    /\ UNCHANGED <<tweets, ingestVars, replyVars, textVars, rt, posts, agentVars>>

\* lines 134-140
PsGenerate ==
    /\ ps.pc = "generate"
    /\ \E r \in SummaryAnswers :
         IF generate_summary_post(r) = <<>>
         THEN ps' = [ps EXCEPT !.pc = "done", !.returned = "False",
                               !.summary = generate_summary_post(r),
                               !.gens = @ + 1]
         ELSE ps' = [ps EXCEPT !.pc = "goto",
                               !.summary = generate_summary_post(r),
                               !.gens = @ + 1]
    /\ UNCHANGED <<tweets, ingestVars, replyVars, textVars, rt, posts, agentVars>>

\* lines 150-159: page.goto, tried three times with a wait in between; the
\* third failure and a failed wait are failures of the attempt
PsGoto ==
    /\ ps.pc = "goto"
    /\ \E ok, waited \in BOOLEAN :
         IF ok THEN ps' = [ps EXCEPT !.pc = "compose", !.nav = 0]
         ELSE IF ps.nav < 2 /\ waited THEN ps' = [ps EXCEPT !.nav = @ + 1]
         ELSE PsAttemptFailed
    /\ UNCHANGED <<tweets, ingestVars, replyVars, textVars, rt, posts, agentVars>>

\* lines 161-193: the home page, the compose button, the input filled with
\* the summary, the enabled tweet button
PsCompose ==
    /\ ps.pc = "compose"
    /\ \E ok \in BOOLEAN :
         IF ok THEN ps' = [ps EXCEPT !.pc = "click"] ELSE PsAttemptFailed
    /\ UNCHANGED <<tweets, ingestVars, replyVars, textVars, rt, posts, agentVars>>

\* lines 195-196
PsClick ==
    /\ ps.pc = "click"
    /\ \E ok \in BOOLEAN :
         IF ok THEN ps' = [ps EXCEPT !.pc = "verify", !.clicks = @ + 1]
         ELSE PsAttemptFailed
    /\ UNCHANGED <<tweets, ingestVars, replyVars, textVars, rt, posts, agentVars>>

\* lines 198-209: a toast or an alert shows that the tweet was posted
PsVerify ==
    /\ ps.pc = "verify"
    /\ \E success \in BOOLEAN :
         IF success THEN ps' = [ps EXCEPT !.pc = "save"] ELSE PsAttemptFailed
    /\ UNCHANGED <<tweets, ingestVars, replyVars, textVars, rt, posts, agentVars>>

\* lines 211-221: the row is saved and True returned, whatever save_post
\* returns
PsSave ==
    /\ ps.pc = "save"
    /\ \E ok \in BOOLEAN : posts' = save_post(posts, PostRow(ps.summary, ps.interactions), ok)
    /\ PsReturn("True")
    /\ UNCHANGED <<tweets, ingestVars, replyVars, textVars, rt, agentVars>>

\* lines 272-275: the wait before the next attempt; when it raises, the
\* handler of line 279 follows
PsWait ==
    /\ ps.pc = "wait"
    /\ \E ok \in BOOLEAN :
         IF ok
         THEN ps' = [ps EXCEPT !.pc = RetryFrom, !.attempt = @ + 1, !.nav = 0]
         ELSE ps' = [ps EXCEPT !.pc = "screenshot"]
    /\ UNCHANGED <<tweets, ingestVars, replyVars, textVars, rt, posts, agentVars>>

\* lines 227-255 and 269-271: the compose URL, the input, the tweet button
\* and its click, not verified; False when one of them raises
PsAlternative ==
    /\ ps.pc = "alternative"
    /\ \E ok \in BOOLEAN :
         IF ok THEN ps' = [ps EXCEPT !.pc = "alternative_save", !.clicks = @ + 1]
         ELSE PsReturn("False")
    /\ UNCHANGED <<tweets, ingestVars, replyVars, textVars, rt, posts, agentVars>>

\* lines 257-267
PsAlternativeSave ==
    /\ ps.pc = "alternative_save"
    /\ \E ok \in BOOLEAN : posts' = save_post(posts, PostRow(ps.summary, ps.interactions), ok)
    /\ PsReturn("True")
    /\ UNCHANGED <<tweets, ingestVars, replyVars, textVars, rt, agentVars>>

\* lines 279-282: the screenshot of the outer handler is not guarded; when it
\* raises, the call ends with that exception
PsScreenshot ==
    /\ ps.pc = "screenshot"
    /\ \E ok \in BOOLEAN :
         IF ok THEN PsReturn("False") ELSE PsReturn("raised")
    /\ UNCHANGED <<tweets, ingestVars, replyVars, textVars, rt, posts, agentVars>>

\* the caller has the result
PsDone ==
    /\ ps.pc = "done"
    /\ ps' = NoPostCall
    /\ UNCHANGED <<tweets, ingestVars, replyVars, textVars, rt, posts, agentVars>>

NextPostSummary ==
    \/ PsCall
    \/ PsLearnings
    \/ PsGenerate
    \/ PsGoto
    \/ PsCompose
    \/ PsClick
    \/ PsVerify
    \/ PsSave
    \/ PsWait
    \/ PsAlternative
    \/ PsAlternativeSave
    \/ PsScreenshot
    \/ PsDone

NextCalls == NextReplyToTweet \/ NextPostSummary

CallIdle ==
    /\ rt = NoReplyCall
    /\ ps = NoPostCall
    /\ posts = <<>>

JobIds == {"reply_job", "post_job", "learn_job"}
NoJobs == [j \in JobIds |-> [state |-> "off", next |-> 0]]
NoCancel == [ingest |-> FALSE, reply |-> FALSE]

\* the store is open with the tables of recreate_tables, and no TwitterAgent
AgentIdle ==
    /\ schema = "current"
    /\ agent = "new"
    /\ clock = 0
    /\ jobs = NoJobs
    /\ cancelled = NoCancel
    /\ load = [w \in Ingesters |-> NoLoad]
    /\ session = "none"

----------------------------------------------------------------------------
(* The JSON columns: json.dumps and json.loads on lists of strings and on  *)
(* strings, character by character. A Python value is a list of texts or a *)
(* text.                                                                   *)

PyList(items) == [kind |-> "list", v |-> items]
PyStr(chars) == [kind |-> "str", v |-> chars]
\* json.loads raising JSONDecodeError
JsonError == [kind |-> "error", v |-> <<>>]

RECURSIVE Escape(_)
\* the escapes of a quotation mark and of a backslash
Escape(s) ==
    IF s = <<>> THEN <<>>
    ELSE (IF Head(s) \in {"\"", "\\"} THEN <<"\\", Head(s)>> ELSE <<Head(s)>>)
         \o Escape(Tail(s))

DumpsStr(s) == <<"\"">> \o Escape(s) \o <<"\"">>

RECURSIVE JoinItems(_)
\* the items of a list, separated by ", "
JoinItems(l) ==
    IF l = <<>> THEN <<>>
    ELSE IF Len(l) = 1 THEN DumpsStr(l[1])
    ELSE DumpsStr(l[1]) \o <<",", " ">> \o JoinItems(Tail(l))

\* json.dumps: the JSON text of a Python value
json_dumps(val) ==
    IF val.kind = "list" THEN <<"[">> \o JoinItems(val.v) \o <<"]">>
    ELSE DumpsStr(val.v)

RECURSIVE ScanString(_, _, _)
\* the string literal of s whose first character after the opening quotation
\* mark is at i: its text and the index after its closing quotation mark
ScanString(s, i, acc) ==
    IF i > Len(s) THEN [ok |-> FALSE, v |-> <<>>, next |-> i]
    ELSE IF s[i] = "\"" THEN [ok |-> TRUE, v |-> acc, next |-> i + 1]
    ELSE IF s[i] = "\\"
    THEN IF i + 1 <= Len(s) /\ s[i + 1] \in {"\"", "\\"}
         THEN ScanString(s, i + 2, Append(acc, s[i + 1]))
         ELSE [ok |-> FALSE, v |-> <<>>, next |-> i]
    ELSE ScanString(s, i + 1, Append(acc, s[i]))

RECURSIVE SkipSpace(_, _)
SkipSpace(s, i) ==
    IF i <= Len(s) /\ s[i] \in Whitespace THEN SkipSpace(s, i + 1) ELSE i

RECURSIVE ScanItems(_, _, _)
\* the items of the array of s from index i, where an item has to start
ScanItems(s, i, acc) ==
    IF i > Len(s) \/ s[i] # "\"" THEN JsonError
    ELSE LET item == ScanString(s, i + 1, <<>>)
             j == SkipSpace(s, item.next)
         IN  IF ~item.ok \/ j > Len(s) THEN JsonError
             ELSE IF s[j] = "]"
             THEN IF SkipSpace(s, j + 1) > Len(s)
                  THEN PyList(Append(acc, item.v))
                  ELSE JsonError
             ELSE IF s[j] = ","
             THEN ScanItems(s, SkipSpace(s, j + 1), Append(acc, item.v))
             ELSE JsonError

\* json.loads on the JSON text of a string or of an array of strings
json_loads(s) ==
    LET i == SkipSpace(s, 1)
    IN  IF i > Len(s) THEN JsonError
        ELSE IF s[i] = "\""
        THEN LET str == ScanString(s, i + 1, <<>>)
             IN  IF str.ok /\ SkipSpace(s, str.next) > Len(s)
                 THEN PyStr(str.v)
                 ELSE JsonError
        ELSE IF s[i] = "["
        THEN LET j == SkipSpace(s, i + 1)
             IN  IF j <= Len(s) /\ s[j] = "]"
                 THEN IF SkipSpace(s, j + 1) > Len(s)
                      THEN PyList(<<>>)
                      ELSE JsonError
                 ELSE ScanItems(s, j, <<>>)
        ELSE JsonError

\* the texts of at most n characters of alphabet
Texts(alphabet, n) == UNION {[1..m -> alphabet] : m \in 0..n}

\* the lists the page scrapes (hashtags, mentions, urls, media_urls) and the
\* enrichment derives (topics, tokens)
ListElems == Texts({"a", ",", "\"", "\\"}, MaxElemLen)
Lists == UNION {[1..m -> ListElems] : m \in 0..MaxListLen}

\* tweet_analyzer.py lines 338-341: a scraped list is encoded by the ingest
FetchScraped ==
    /\ fn = "-"
    /\ fn' = "scraped_fetched"
    /\ out' = PyStr(json_dumps(PyList(answer)))
    /\ UNCHANGED <<tweets, ingestVars, replyVars, answer, callVars, agentVars>>

\* tweet_analyzer.py lines 358-359: topics and tokens go to save_tweet as lists
FetchDerived ==
    /\ fn = "-"
    /\ fn' = "derived_fetched"
    /\ out' = PyList(answer)
    /\ UNCHANGED <<tweets, ingestVars, replyVars, answer, callVars, agentVars>>

\* database.py lines 116-122: save_tweet encodes each of the six fields
SaveField ==
    /\ fn \in {"scraped_fetched", "derived_fetched"}
    /\ fn' = (IF fn = "scraped_fetched" THEN "scraped_saved" ELSE "derived_saved")
    /\ out' = PyStr(json_dumps(out))
    /\ UNCHANGED <<tweets, ingestVars, replyVars, answer, callVars, agentVars>>

\* database.py lines 198-201: get_tweet_by_id decodes each non-empty column
ReadField ==
    /\ fn \in {"scraped_saved", "derived_saved"}
    /\ fn' = (IF fn = "scraped_saved" THEN "scraped_read" ELSE "derived_read")
    /\ out' = (IF out.v # <<>> THEN json_loads(out.v) ELSE out)
    /\ UNCHANGED <<tweets, ingestVars, replyVars, answer, callVars, agentVars>>

NextLists == FetchScraped \/ FetchDerived \/ SaveField \/ ReadField

----------------------------------------------------------------------------
(* Specifications *)

\* one ingester; in each run at most one of the enrichment calls may fail
Init ==
    /\ tweets = <<>>
    /\ \E flaky \in {S \in SUBSET SubCalls : Cardinality(S) <= 1} :
         IngestIdle({"A"}, flaky, TextPosts)
    /\ ReplyIdle
    /\ TextIdle
    /\ CallIdle
    /\ AgentIdle

Spec == Init /\ [][NextIngest]_vars

\* two ingesters on one store, only the summary call may fail
InitRace ==
    /\ tweets = <<>>
    /\ IngestIdle(Ingesters, {"summarize"}, TextPosts)
    /\ ReplyIdle
    /\ TextIdle
    /\ CallIdle
    /\ AgentIdle

SpecRace == InitRace /\ [][NextIngest]_vars

\* one ingester; each of the five enrichment calls may fail
InitFlaky ==
    /\ tweets = <<>>
    /\ IngestIdle({"A"}, SubCalls, TextPosts)
    /\ ReplyIdle
    /\ TextIdle
    /\ CallIdle
    /\ AgentIdle

SpecFlaky == InitFlaky /\ [][NextIngest]_vars

\* one ingester that loads the timeline before each batch; no enrichment
\* call fails
InitLoad ==
    /\ tweets = <<>>
    /\ IngestIdle({"A"}, {}, TextPosts)
    /\ ReplyIdle
    /\ TextIdle
    /\ CallIdle
    /\ AgentIdle

SpecLoad == InitLoad /\ [][NextLoad]_vars

\* one ingester on a page whose articles may lack a status link or a text;
\* in each run at most one of the enrichment calls may fail
InitPage ==
    /\ tweets = <<>>
    /\ \E flaky \in {S \in SUBSET SubCalls : Cardinality(S) <= 1} :
         IngestIdle({"A"}, flaky, RawPosts)
    /\ ReplyIdle
    /\ TextIdle
    /\ CallIdle
    /\ AgentIdle

SpecPage == InitPage /\ [][NextIngest]_vars

\* the stored tweets the reply operations start from: what ingest can have
\* stored for StoredIds, with every score and timestamp of the sets below
ReplyScores == {50, 60, 90}
ReplyTimestamps == {[day |-> -2, hour |-> 18], [day |-> -1, hour |-> 6],
                    [day |-> 0, hour |-> 6]}
StoredIds == <<"t1", "t2", "t3">>
\* t1 asks a question, t2 is from an author of the allow-list
StoredContent(id) == IF id = "t1" THEN <<"w", "h", "o", "?">> ELSE <<"c">>
StoredAuthor(id) == IF id = "t2" THEN "elonmusk" ELSE "alice"

StoredRow(id, score, ts) ==
    [tweet_id |-> id, content |-> StoredContent(id),
     author |-> StoredAuthor(id), timestamp |-> ts,
     summary |-> <<"s">>, embedding |-> <<"0.1">>,
     insight_score |-> score, topics |-> <<<<"a", "i">>>>,
     tokens |-> <<<<"B", "T", "C">>>>]

InitReply ==
    /\ \E sc \in [1..Len(StoredIds) -> ReplyScores],
          ts \in [1..Len(StoredIds) -> ReplyTimestamps] :
         tweets = [i \in 1..Len(StoredIds) |-> StoredRow(StoredIds[i], sc[i], ts[i])]
    /\ IngestIdle({}, {}, {})
    /\ ReplyIdle
    /\ TextIdle
    /\ CallIdle
    /\ AgentIdle

SpecReply == InitReply /\ [][NextReply]_vars

\* the reply cycles of reply_to_recent_tweets alone
NextCycle ==
    \/ ReplySelect
    \/ ReplyCheck
    \/ ReplyGenerate
    \/ ReplyPage
    \/ ReplyClick
    \/ ReplySave
    \/ ReplyDelay

SpecCycle == InitReply /\ [][NextCycle]_vars

\* the calls of reply_to_tweet and post_summary on a store of two tweets
InitCalls ==
    /\ tweets = <<StoredRow("t1", 60, [day |-> 0, hour |-> 6]),
                  StoredRow("t2", 90, [day |-> 0, hour |-> 6])>>
    /\ IngestIdle({}, {}, {})
    /\ ReplyIdle
    /\ TextIdle
    /\ CallIdle
    /\ AgentIdle

SpecCalls == InitCalls /\ [][NextCalls]_vars

----------------------------------------------------------------------------
(* Interrupted cycles *)

\* fetch_and_learn_tweets is cancelled or interrupted: CancelledError and
\* KeyboardInterrupt are not caught by the except Exception of lines 371
\* and 377, so the coroutine ends where it is and its locals are gone
CancelIngest(w) ==
    /\ ipc[w] \notin {"idle", "off"}
    /\ ipc' = [ipc EXCEPT ![w] = "idle"]
    /\ left' = [left EXCEPT ![w] = 0]
    /\ cur' = [cur EXCEPT ![w] = NoPost]
    /\ data' = [data EXCEPT ![w] = NoData]
    /\ saved' = [saved EXCEPT ![w] = "-"]
    /\ cancelled' = [cancelled EXCEPT
                        !.ingest = @ \/ ipc[w] \in SubCalls]
    /\ UNCHANGED <<tweets, tsFlaky, page, replyVars, textVars, callVars,
                   schema, agent, clock, jobs, load, session>>

\* reply_to_recent_tweets is cancelled or interrupted: neither the except
\* Exception of line 370 nor that of line 374 catches it
CancelReply ==
    /\ rpc # "idle"
    /\ rpc' = "idle"
    /\ cands' = <<>>
    /\ pos' = 0
    /\ cancelled' = [cancelled EXCEPT !.reply = @ \/ rpc = "save"]
    /\ UNCHANGED <<tweets, ingestVars, replies, reply_text, textVars, callVars,
                   schema, agent, clock, jobs, load, session>>

NextCancel ==
    \/ NextIngest
    \/ NextCycle
    \/ \E w \in Ingesters : CancelIngest(w)
    \/ CancelReply

\* one ingester and the reply cycles on an empty store
InitCancel ==
    /\ tweets = <<>>
    /\ IngestIdle({"A"}, {}, TextPosts)
    /\ ReplyIdle
    /\ TextIdle
    /\ CallIdle
    /\ AgentIdle

SpecCancel == InitCancel /\ [][NextCancel]_vars

----------------------------------------------------------------------------
(* The TwitterAgent: the store it opens and the jobs it schedules *)

\* the rows of a tweets table that was created without the columns
\* insight_score, topics and tokens
LegacyRow(id) ==
    [tweet_id |-> id, content |-> StoredContent(id),
     author |-> StoredAuthor(id), timestamp |-> [day |-> 0, hour |-> 6],
     summary |-> <<"s">>, embedding |-> <<"0.1">>]

\* init_database, lines 84-89: a column of required_columns is missing; a
\* tweets table that does not exist has no columns
SchemaOutdated(sch) == sch # "current"

\* TwitterDatabase(): __init__ calls init_database, which calls
\* recreate_tables on an outdated schema: the three tables are dropped and
\* created empty. When a statement raises, nothing is committed.
TwitterDatabase(ok) ==
    IF ok /\ SchemaOutdated(schema)
    THEN /\ tweets' = <<>>
         /\ replies' = <<>>
         /\ posts' = <<>>
         /\ schema' = "current"
    ELSE UNCHANGED <<tweets, replies, posts, schema>>

\* TwitterAgent.__init__, main.py lines 14-18; the constructor raises when
\* init_database does
AgentConstruct ==
    /\ agent = "new"
    /\ \E ok \in BOOLEAN :
         /\ TwitterDatabase(ok)
         /\ agent' = IF ok THEN "constructed" ELSE "new"
    /\ UNCHANGED <<ingestVars, rpc, cands, pos, reply_text, textVars, rt, ps,
                   clock, jobs, cancelled, load, session>>

\* check_db.py, line 5: the store is opened by the script
CheckDb ==
    /\ \E ok \in BOOLEAN : TwitterDatabase(ok)
    /\ UNCHANGED <<ingestVars, rpc, cands, pos, reply_text, textVars, rt, ps,
                   agent, clock, jobs, cancelled, load, session>>

\* the intervals of the jobs in minutes: scheduler.py lines 12, 13 and 44
reply_interval == 30
post_interval == 120
learn_interval == 15

Interval(j) ==
    CASE j = "reply_job" -> reply_interval
      [] j = "post_job" -> post_interval
      [] j = "learn_job" -> learn_interval

\* TwitterAgent.cleanup, main.py lines 117-120, as the handler of start
\* calls it: TwitterScheduler.stop shuts the scheduler down if it runs, the
\* browser is closed, and the exception goes on to the caller
cleanup ==
    /\ jobs' = NoJobs
    /\ session' = "closed"
    /\ agent' = "failed"

\* a start that goes on whatever login returned
LoginPassed_unchecked(ok) == TRUE

\* main.py line 33: `if not self.browser.login(...)` raises
LoginPassed(ok) == ok

\* TwitterAgent.start, lines 30-34: the browser is started and login is
\* called; when it returns False the exception of line 34 reaches the
\* handler of line 45
AgentLogin ==
    /\ agent = "constructed"
    /\ \E ok \in BOOLEAN :
         IF LoginPassed(ok)
         THEN /\ agent' = "logged_in"
              /\ session' = (IF ok THEN "logged_in" ELSE "none")
              /\ UNCHANGED jobs
         ELSE cleanup
    /\ UNCHANGED <<tweets, ingestVars, replyVars, textVars, callVars, schema,
                   clock, cancelled, load>>

\* TwitterAgent.start, lines 36-41, and TwitterScheduler.start: each job is
\* added with an interval trigger, whose first run time is one interval
\* after the start, and the scheduler is started; when that raises, the
\* scheduler does not run and the handler of main.py line 45 follows
SchedulerStart ==
    /\ agent = "logged_in"
    /\ \E ok \in BOOLEAN :
         IF ok
         THEN /\ agent' = "started"
              /\ clock' = 0
              /\ jobs' = [j \in JobIds |->
                            [state |-> "waiting", next |-> Interval(j)]]
              /\ UNCHANGED session
         ELSE cleanup /\ UNCHANGED clock
    /\ UNCHANGED <<tweets, ingestVars, replyVars, textVars, callVars, schema,
                   cancelled, load>>

\* time passes up to the next run time of a job
Tick ==
    /\ agent = "started"
    /\ \A j \in JobIds : jobs[j].next > clock
    /\ \E j \in JobIds :
         /\ \A k \in JobIds : jobs[j].next <= jobs[k].next
         /\ jobs[j].next <= MaxMinutes
         /\ clock' = jobs[j].next
    /\ UNCHANGED <<tweets, ingestVars, replyVars, textVars, callVars, schema,
                   agent, jobs, cancelled, load, session>>

\* the BackgroundScheduler of scheduler.py line 11 hands a job that is due to
\* its thread pool, unless an instance of that job is still running, and
\* sets the job's next run time
RunJob(j) ==
    /\ agent = "started"
    /\ jobs[j].next = clock
    /\ jobs' = [jobs EXCEPT ![j] = [state |-> "running",
                                    next |-> clock + Interval(j)]]
    /\ UNCHANGED <<tweets, ingestVars, replyVars, textVars, callVars, schema,
                   agent, clock, cancelled, load, session>>

\* post_data of TwitterAgent.create_post, main.py lines 106-111
CreatedPost(recent_tweets) ==
    [content |-> <<"h", "i">>,
     source_tweets |-> [i \in 1..Len(recent_tweets) |-> recent_tweets[i].tweet_id],
     status |-> "posted"]

\* TwitterAgent.create_post: the post is saved unless a call before
\* save_post raised
create_post ==
    \E recent_tweets \in get_recent_tweets(tweets, 10) :
    \E raised, ok \in BOOLEAN :
       IF raised THEN UNCHANGED posts
       ELSE /\ Len(posts) < MaxPosts
            /\ posts' = save_post(posts, CreatedPost(recent_tweets), ok)

\* the job function returns: reply_to_tweets and create_post have saved what
\* they save; learn_from_tweets iterates over the None of _extract_tweets,
\* and the TypeError ends it before it saves anything
JobReturn(j) ==
    /\ jobs[j].state = "running"
    /\ jobs' = [jobs EXCEPT ![j].state = "waiting"]
    /\ CASE j = "reply_job" -> reply_to_tweets /\ UNCHANGED posts
         [] j = "post_job" -> create_post /\ UNCHANGED replies
         [] j = "learn_job" -> UNCHANGED <<replies, posts>>
    /\ UNCHANGED <<tweets, ingestVars, rpc, cands, pos, reply_text, textVars,
                   rt, ps, schema, agent, clock, cancelled, load, session>>

NextAgent ==
    \/ AgentConstruct
    \/ CheckDb
    \/ AgentLogin
    \/ SchedulerStart
    \/ Tick
    \/ \E j \in JobIds : RunJob(j)
    \/ \E j \in JobIds : JobReturn(j)

\* a database file without tables, one of an outdated schema that holds two
\* tweets, and one of the current schema that holds two tweets
InitAgent ==
    /\ schema \in {"none", "outdated", "current"}
    /\ tweets = CASE schema = "none" -> <<>>
                  [] schema = "outdated" -> <<LegacyRow("t1"), LegacyRow("t2")>>
                  [] schema = "current" ->
                        <<StoredRow("t1", 60, [day |-> 0, hour |-> 6]),
                          StoredRow("t2", 90, [day |-> 0, hour |-> 9])>>
    /\ IngestIdle({}, {}, {})
    /\ ReplyIdle
    /\ TextIdle
    /\ CallIdle
    /\ agent = "new"
    /\ clock = 0
    /\ jobs = NoJobs
    /\ cancelled = NoCancel
    /\ load = [w \in Ingesters |-> NoLoad]
    /\ session = "none"

SpecAgent == InitAgent /\ [][NextAgent]_vars

----------------------------------------------------------------------------
(* The text functions on the answers of the Text Service *)

ScoreAnswers ==
    Texts({"0", "1", "7", "-", "_", " ", "."}, MaxScoreLen) \cup {Failure, None}

TopicsAnswers ==
    Texts({"a", "A", " ", "\n", ","}, MaxTopicsLen) \cup {Failure, None}

TokensAnswers ==
    Texts({"b", "T", "$", " ", ","}, MaxTokensLen) \cup {Failure, None}

\* an answer to the reply prompt of n characters: the letters a, b, c in
\* turn, with the quotation marks and the spaces of its shape
ReplyShapes == {"plain", "quoted", "apostrophes", "padded"}
ReplyText(n, shape) ==
    [i \in 1..n |->
        IF shape = "quoted" /\ i \in {1, n} THEN "\""
        ELSE IF shape = "apostrophes" /\ i % 7 = 0 THEN "'"
        ELSE IF shape = "padded" /\ i \in {1, n} THEN " "
        ELSE IF i % 3 = 0 THEN "a"
        ELSE IF i % 3 = 1 THEN "b"
        ELSE "c"]

LongReplyAnswers ==
    {ReplyText(n, shape) :
        n \in (0..ShortReply) \cup ((280 - ReplySlack)..(280 + ReplySlack)),
        shape \in ReplyShapes}
    \cup {Failure, None}

\* generate_insight_score applied to the answer
ApplyScore ==
    /\ fn = "-"
    /\ fn' = "generate_insight_score"
    /\ out' = generate_insight_score(answer)
    /\ UNCHANGED <<tweets, ingestVars, replyVars, answer, callVars, agentVars>>

\* generate_topics applied to the answer
ApplyTopics ==
    /\ fn = "-"
    /\ fn' = "generate_topics"
    /\ out' = generate_topics(answer)
    /\ UNCHANGED <<tweets, ingestVars, replyVars, answer, callVars, agentVars>>

\* extract_tokens applied to the answer
ApplyTokens ==
    /\ fn = "-"
    /\ fn' = "extract_tokens"
    /\ out' = extract_tokens(answer)
    /\ UNCHANGED <<tweets, ingestVars, replyVars, answer, callVars, agentVars>>

\* generate_reply applied to the answer
ApplyReply ==
    /\ fn = "-"
    /\ fn' = "generate_reply"
    /\ out' = generate_reply(answer)
    /\ UNCHANGED <<tweets, ingestVars, replyVars, answer, callVars, agentVars>>

\* generate_summary_post applied to the answer
ApplySummary ==
    /\ fn = "-"
    /\ fn' = "generate_summary_post"
    /\ out' = generate_summary_post(answer)
    /\ UNCHANGED <<tweets, ingestVars, replyVars, answer, callVars, agentVars>>

InitText(answers) ==
    /\ tweets = <<>>
    /\ IngestIdle({}, {}, {})
    /\ ReplyIdle
    /\ answer \in answers
    /\ fn = "-"
    /\ out = None
    /\ CallIdle
    /\ AgentIdle

SpecScore == InitText(ScoreAnswers) /\ [][ApplyScore]_vars
SpecTopics == InitText(TopicsAnswers) /\ [][ApplyTopics]_vars
SpecTokens == InitText(TokensAnswers) /\ [][ApplyTokens]_vars
SpecReplyText == InitText(LongReplyAnswers) /\ [][ApplyReply]_vars
SpecSummaryText == InitText(LongReplyAnswers) /\ [][ApplySummary]_vars
SpecLists == InitText(Lists) /\ [][NextLists]_vars

\* the stores get_recent_unreplied_tweets is asked on: three tweets of every
\* author, content and timestamp of the sets below, any of them replied to
UnrepliedAuthors == {"elonmusk", "alice"}
UnrepliedContents == {<<"c">>, <<"c", "?">>, <<"h", "o", "w">>}
UnrepliedTimestamps == {[day |-> -2, hour |-> 18], [day |-> 0, hour |-> 6],
                        [day |-> 0, hour |-> 9]}

InitUnreplied ==
    /\ \E au \in [1..Len(StoredIds) -> UnrepliedAuthors],
          co \in [1..Len(StoredIds) -> UnrepliedContents],
          ts \in [1..Len(StoredIds) -> UnrepliedTimestamps] :
         tweets = [i \in 1..Len(StoredIds) |->
                      [StoredRow(StoredIds[i], 60, ts[i])
                          EXCEPT !.author = au[i], !.content = co[i]]]
    /\ IngestIdle({}, {}, {})
    /\ \E replied \in SUBSET (1..Len(StoredIds)) :
         replies = SaveAll(<<>>, tweets, replied)
    /\ rpc = "idle"
    /\ cands = <<>>
    /\ pos = 0
    /\ reply_text = None
    /\ TextIdle
    /\ CallIdle
    /\ AgentIdle

\* one call of get_recent_unreplied_tweets; fn tells whether the query ran
ApplyUnreplied ==
    /\ fn = "-"
    /\ \E limit \in 1..MaxLimit, ok \in BOOLEAN :
         /\ out' \in get_recent_unreplied_tweets(tweets, replies, limit, ok)
         /\ fn' = IF ok THEN <<"get_recent_unreplied_tweets", limit>>
                  ELSE <<"raised", limit>>
    /\ UNCHANGED <<tweets, ingestVars, replyVars, answer, callVars, agentVars>>

SpecUnreplied == InitUnreplied /\ [][ApplyUnreplied]_vars

----------------------------------------------------------------------------
(* Ingest: claims C1 to C4 *)

RowsOf(tweet_id) == {i \in 1..Len(tweets) : tweets[i].tweet_id = tweet_id}

\* C1: after any sequence of batches the tweets table holds one row per
\* tweet_id, and the lookup of a tweet_id that is stored never leads to the
\* first Text Service call for it.
C1_IdempotentIngest ==
    /\ [](\A id \in TweetIds : Cardinality(RowsOf(id)) <= 1)
    /\ [][\A w \in Ingesters :
            (ipc[w] = "lookup" /\ HasTweet(tweets, cur[w].tweet_id))
                => ipc'[w] # "summarize"]_vars

\* C2: a save_tweet step for a tweet_id that is stored leaves every row of
\* the tweets table as it was, whatever row it is given.
C2_SaveStoredIsNoOp ==
    [][\A w \in Ingesters :
        (ipc[w] = "save" /\ ipc'[w] # "save" /\ HasTweet(tweets, cur[w].tweet_id))
            => tweets' = tweets]_vars

\* save_tweet ran for a stored tweet_id with a row that differs from the
\* stored one, and the stored one is still there
C2_Witness ==
    \E w \in Ingesters :
        /\ ipc[w] = "extract"
        /\ saved[w] = "True"
        /\ \E i \in RowsOf(cur[w].tweet_id) : tweets[i] # Row(cur[w], data[w])

\* both ingesters have enriched the tweet_id and are past their save_tweet
RaceDone(id) ==
    \A w \in Ingesters :
        ipc[w] = "extract" /\ cur[w].tweet_id = id /\ saved[w] # "-"

\* no row of the tweets table changes or goes: the first insert's data stays
RowsKept ==
    \A i \in 1..Len(tweets) : i <= Len(tweets') /\ tweets'[i] = tweets[i]

Charging(w, id) ==
    /\ ipc[w] \in {"embed", "score", "topics", "tokens", "save"}
    /\ cur[w].tweet_id = id

\* C4: at no time are two ingesters both between their first enrichment call
\* and their save_tweet for the same tweet_id.
C4_NoDoubleCharge ==
    \A id \in TweetIds : Cardinality({w \in Ingesters : Charging(w, id)}) <= 1

\* C13: a save_tweet step for a tweet_id that is stored returns something
\* else than what save_tweet returns when it inserts a new tweet_id.
C13_InsertReportsPresence ==
    [][\A w \in Ingesters :
        (ipc[w] = "save" /\ ipc'[w] # "save" /\ HasTweet(tweets, cur[w].tweet_id))
            => saved'[w] # save_tweet_returns(TRUE)]_vars

\* the enrichment calls in the order of lines 349-353, and save_tweet
CallAfter ==
    [summarize |-> "embed", embed |-> "score", score |-> "topics",
     topics |-> "tokens", tokens |-> "save"]

\* each result whose call failed is the default of that call
FailedAreDefaults(d) ==
    /\ "summarize" \in d.failed => d.summary = <<>>
    /\ "embed" \in d.failed => d.embedding = <<>>
    /\ "score" \in d.failed => d.insight_score = 50
    /\ "topics" \in d.failed => d.topics = <<>>
    /\ "tokens" \in d.failed => d.tokens = <<>>

\* C14: whichever of the five enrichment calls fail for a tweet, each failed
\* call leaves its default, every call is followed by the next one of the
\* five and the last by save_tweet, and a save_tweet of a new tweet_id that
\* returns True has stored the row with those results.
C14_FailuresYieldDefaults ==
    /\ [](\A w \in Ingesters : FailedAreDefaults(data[w]))
    /\ [][\A w \in Ingesters :
            (ipc[w] \in DOMAIN CallAfter /\ ipc'[w] # ipc[w]) =>
                ipc'[w] = CallAfter[ipc[w]]]_vars
    /\ [][\A w \in Ingesters :
            (/\ ipc[w] = "save" /\ ipc'[w] # "save"
             /\ saved'[w] = "True"
             /\ ~HasTweet(tweets, cur[w].tweet_id)) =>
                tweets' = Append(tweets, Row(cur[w], data[w]))]_vars

\* all five calls failed for a tweet and its row of five defaults is stored
C14_Witness ==
    \E w \in Ingesters :
        /\ ipc[w] = "extract"
        /\ data[w].failed = SubCalls
        /\ saved[w] = "True"
        /\ \E i \in RowsOf(cur[w].tweet_id) :
              /\ tweets[i] = Row(cur[w], data[w])
              /\ tweets[i].summary = <<>> /\ tweets[i].embedding = <<>>
              /\ tweets[i].insight_score = 50
              /\ tweets[i].topics = <<>> /\ tweets[i].tokens = <<>>

\* C20: an ingester never gets past the extraction with a raw post whose
\* tweet_id or content is empty: it makes no enrichment call and no
\* save_tweet for it, and no such row is stored.
C20_MalformedDropped ==
    /\ \A w \in Ingesters :
          (cur[w].tweet_id = "" \/ cur[w].content = <<>>) =>
              ipc[w] \notin {"summarize", "embed", "score", "topics", "tokens", "save"}
    /\ \A i \in 1..Len(tweets) :
          tweets[i].tweet_id # "" /\ tweets[i].content # <<>>

----------------------------------------------------------------------------
(* Reply: claims C5 to C7 *)

HasPostedReply(tweet_id) ==
    \E i \in RepliesTo(replies, tweet_id) : replies[i].status = "posted"

\* C5: reply_to_recent_tweets never goes from its reply check to the reply
\* generation for a tweet that has a reply row with status posted, and
\* get_recent_unreplied_tweets returns no such tweet.
C5_NoReplyAfterPosted ==
    /\ [][(rpc = "check" /\ HasPostedReply(cands[pos].tweet_id))
            => rpc' # "generate"]_vars
    /\ [](\A ok \in BOOLEAN :
            \A list \in get_recent_unreplied_tweets(tweets, replies, 3, ok) :
                \A j \in 1..Len(list) : ~HasPostedReply(list[j].tweet_id))

\* the statuses the reply operations write for a reply that was submitted
SuccessStatuses == {"posted", "sent"}

\* C6: the replies table holds at most one row of a successful reply for any
\* original_tweet_id.
C6_OneSuccessfulReply ==
    \A id \in TweetIds \cup {"t3"} :
        Cardinality({i \in RepliesTo(replies, id) :
                        replies[i].status \in SuccessStatuses}) <= 1

\* the stored tweets that qualify for a reply: posted within the 24 hours
\* before the query, no reply row, insight_score above 50
Qualifying ==
    {i \in 1..Len(tweets) :
        /\ ~Later(Cutoff, tweets[i].timestamp)
        /\ RepliesTo(replies, tweets[i].tweet_id) = {}
        /\ tweets[i].insight_score > 50}

\* the tweets of the queried list that the loop goes on to reply to
Selected ==
    SelectSeq(cands, LAMBDA t :
        /\ ~has_replied_to_tweet(replies, t.tweet_id, TRUE)
        /\ t.insight_score > 50)

\* C7: when the loop of a cycle starts, it selects at most ReplyLimit tweets,
\* and fewer only when fewer stored tweets qualify.
C7_SelectionBounded ==
    (rpc = "check" /\ pos = 1) =>
        /\ Len(Selected) <= ReplyLimit
        /\ Len(Selected) < ReplyLimit => Cardinality(Qualifying) < ReplyLimit

\* C17: every row of the replies table has one of the statuses pending,
\* posted and failed.
C17_ReplyStatusDomain ==
    \A i \in 1..Len(replies) :
        replies[i].status \in {"pending", "posted", "failed"}

----------------------------------------------------------------------------
(* The calls of reply_to_tweet and post_summary: claims C15, C16, C18, C19 *)

\* C15: a reply_to_tweet call that returned True has added to the replies
\* table the row of its reply with status posted, and one that returned
\* False has added no row.
C15_ReplyResultMatchesStore ==
    rt.pc = "done" =>
        /\ rt.returned = "True" =>
              /\ Len(replies) = rt.before + 1
              /\ replies[Len(replies)] =
                    ReplyRow(rt.tweet_id, rt.reply_content, "posted")
        /\ rt.returned = "False" => Len(replies) = rt.before

\* C16: a post_summary call that returned True has added exactly one row,
\* with status posted, to the posts table, and one that returned False has
\* added no row.
C16_PostResultMatchesStore ==
    ps.pc = "done" =>
        /\ ps.returned = "True" =>
              /\ Len(posts) = ps.before + 1
              /\ posts[Len(posts)] = PostRow(ps.summary, ps.interactions)
        /\ ps.returned = "False" => Len(posts) = ps.before

\* C18: a call of reply_to_tweet and a call of post_summary each make the
\* content generation call at most once.
C18_GenerationOnce == rt.gens <= 1 /\ ps.gens <= 1

\* a post_summary call that used its three attempts and the alternative
\* method, and a reply_to_tweet call that went through every success
\* indicator, each with one content generation
C18_Witness ==
    /\ ps.pc = "done" /\ ps.gens = 1
    /\ ps.attempt = max_retries - 1 /\ ps.clicks = max_retries + 1
    /\ rt.pc = "done" /\ rt.gens = 1
    /\ rt.returned = "False" /\ rt.sel = Alternatives["verify"] - 1

\* C19: post_summary starts at most max_retries attempts of its loop, and
\* when it is over it has returned True or False.
C19_BoundedAttempts ==
    /\ ps.attempt < max_retries
    /\ ps.pc = "done" => ps.returned \in {"True", "False"}

----------------------------------------------------------------------------
(* Text functions: claims C8 to C10 *)

IsText(a) == a \notin {Failure, None}

\* C8: the insight score is an integer of 0..100: the clamped value of an
\* answer that int() parses, and 50 for every other answer and a failed call.
C8_ScoreClamped ==
    fn = "generate_insight_score" =>
        /\ out \in 0..100
        /\ IsText(answer) /\ IntParses(answer) =>
              out = (IF IntValue(answer) < 0 THEN 0
                     ELSE IF IntValue(answer) > 100 THEN 100
                     ELSE IntValue(answer))
        /\ ~(IsText(answer) /\ IntParses(answer)) => out = 50

\* an answer above 100 was clamped to 100
C8_Witness ==
    /\ fn = "generate_insight_score"
    /\ IsText(answer) /\ IntParses(answer) /\ IntValue(answer) > 100
    /\ out = 100

\* C9: generate_topics returns at most 3 topics, each without whitespace and
\* without an upper-case letter.
C9_TopicsValid ==
    fn = "generate_topics" =>
        /\ Len(out) <= 3
        /\ \A i \in 1..Len(out) : \A j \in 1..Len(out[i]) :
              out[i][j] \notin Whitespace \cup UpperCase

\* the answer with its surrounding whitespace and its quotation marks removed
Unquoted(a) == Remove(Strip(a), Quotes)

\* C10: the reply text has at most 280 characters; an answer of more than 280
\* characters after quote stripping is cut to 280: its first 277 characters
\* and three dots.
C10_ReplyTruncated ==
    (fn = "generate_reply" /\ IsText(answer)) =>
        /\ Len(out) <= 280
        /\ Len(Unquoted(answer)) > 280 =>
              /\ Len(out) = 280
              /\ SubSeq(out, 1, 277) = SubSeq(Unquoted(answer), 1, 277)
              /\ SubSeq(out, 278, 280) = <<".", ".", ".">>

\* an answer of more than 280 characters that held quotation marks was cut
C10_Witness ==
    /\ fn = "generate_reply"
    /\ IsText(answer)
    /\ Len(Unquoted(answer)) > 280
    /\ Unquoted(answer) # Strip(answer)
    /\ Len(out) = 280

\* C11: the summary text generate_summary_post returns, which post_summary
\* types and stores as it is, has at most 280 characters; an answer of more
\* than 280 characters is cut to 277 characters and three dots.
C11_SummaryTruncated ==
    (fn = "generate_summary_post" /\ IsText(answer)) =>
        /\ Len(out) <= 280
        /\ Len(Strip(answer)) > 280 =>
              /\ Len(out) = 280
              /\ SubSeq(out, 1, 277) = SubSeq(Strip(answer), 1, 277)
              /\ SubSeq(out, 278, 280) = <<".", ".", ".">>

\* C26: extract_tokens returns symbols without a lower-case letter and
\* without a leading '$', no symbol twice, and the empty list for an empty
\* answer.
C26_TokensNormalised ==
    (fn = "extract_tokens" /\ IsText(answer)) =>
        /\ \A i \in 1..Len(out) :
              /\ \A j \in 1..Len(out[i]) : Upper(out[i][j]) = out[i][j]
              /\ out[i][1] # "$"
        /\ \A i, j \in 1..Len(out) : i # j => out[i] # out[j]
        /\ answer = <<>> => out = <<>>

\* the original tweets recorded as sources of the posts that were stored
\* when the post_summary call began
RecordedSources ==
    UNION {{posts[p].source_tweets[k] : k \in 1..Len(posts[p].source_tweets)} :
              p \in 1..ps.before}

\* C24: the interactions a post_summary call selected as the input of its
\* summary hold no tweet that is recorded as a source of a post of an
\* earlier cycle.
C24_NoSourceReused ==
    \A i \in 1..Len(ps.interactions) :
        ps.interactions[i].original_tweet \notin RecordedSources

\* C25: no tweet appears twice among the interactions a post_summary call
\* selected.
C25_NoTweetTwice ==
    \A i, j \in 1..Len(ps.interactions) :
        i # j => ps.interactions[i].original_tweet
                    # ps.interactions[j].original_tweet

\* the tiers of C23: allow-listed authors, then question-like tweets, then
\* the remaining ones
Tier(row) ==
    IF row.author \in ImportantAuthors THEN 1
    ELSE IF QuestionLike(row.content) THEN 2
    ELSE 3

\* the rows of the tweets table without a reply
Unreplied ==
    {i \in 1..Len(tweets) : RepliesTo(replies, tweets[i].tweet_id) = {}}

----------------------------------------------------------------------------
(* Interrupted cycles: claim C30 *)

\* the steps of the ingest in the order of the code, from the lookup on
StepBefore ==
    [summarize |-> "lookup", embed |-> "summarize", score |-> "embed",
     topics |-> "score", tokens |-> "topics", save |-> "tokens"]

\* C30: with cycles interrupted at any point, the tweets table changes only
\* by one save_tweet step that appends the whole row of an article whose
\* five enrichment calls have all returned, in their order; no stored row
\* changes afterwards; and the replies table changes only by the save_reply
\* step that follows a click that returned.
C30_NoPartialRows ==
    /\ [](\A i \in 1..Len(tweets) :
            tweets[i].summary # None /\ tweets[i].embedding # None)
    /\ [][/\ RowsKept
          /\ tweets' # tweets =>
                \E w \in Ingesters :
                    /\ ipc[w] = "save"
                    /\ tweets' = Append(tweets, Row(cur[w], data[w]))
          /\ \A w \in Ingesters :
                (ipc'[w] \in DOMAIN StepBefore /\ ipc'[w] # ipc[w])
                    => ipc[w] = StepBefore[ipc'[w]]
          /\ replies' # replies =>
                /\ rpc = "save"
                /\ replies' = Append(replies,
                       ReplyRow(cands[pos].tweet_id, reply_text, "sent"))
          /\ (rpc' = "save" /\ rpc # "save") => rpc = "click"]_vars

\* the ingest was interrupted between the enrichment calls of an article
\* and the reply cycle between the click and save_reply, and the store holds
\* a tweet without a reply
C30_Witness ==
    /\ cancelled.ingest
    /\ cancelled.reply
    /\ Len(tweets) = 1
    /\ replies = <<>>

----------------------------------------------------------------------------
(* The agent: claims C28, C29 *)

\* C28: at most one scheduler job runs at a time.
C28_OneJobAtATime ==
    Cardinality({j \in JobIds : jobs[j].state = "running"}) <= 1

\* C29: a tweet_id that has a row in the tweets table has one after every
\* step, the opening of the store included.
C29_RowsNeverDeleted ==
    [][\A i \in 1..Len(tweets) :
          \E k \in 1..Len(tweets') :
              tweets'[k].tweet_id = tweets[i].tweet_id]_vars

----------------------------------------------------------------------------
(* The JSON columns: claim C12 *)

\* C12: a list field that went through the ingest, save_tweet and
\* get_tweet_by_id comes back as the list of the same elements in the same
\* order, for the scraped fields and for the derived ones.
C12_ListsRoundTrip ==
    fn \in {"scraped_read", "derived_read"} =>
        out.kind = "list" /\ out.v = answer

\* the same for the derived fields topics and tokens alone
DerivedListsRoundTrip ==
    fn = "derived_read" => out.kind = "list" /\ out.v = answer

----------------------------------------------------------------------------
(* The reply cycle's order and threshold: claims C21, C22, C27 *)

\* the list is in the order of insight_score descending, and of timestamp
\* descending among equal scores
InsightOrder(list) ==
    \A a, b \in 1..Len(list) :
        a < b =>
            \/ list[a].insight_score > list[b].insight_score
            \/ /\ list[a].insight_score = list[b].insight_score
               /\ ~Later(list[b].timestamp, list[a].timestamp)

\* C21: the list a reply cycle works on is ordered by insight_score
\* descending and, among equal scores, by timestamp descending, and the
\* cycle handles its tweets one after the other in the order of that list.
C21_RepliesInInsightOrder ==
    /\ [](InsightOrder(cands))
    /\ [][/\ pos' # pos =>
                \/ pos' = pos + 1 /\ cands' = cands
                \/ pos = 0 /\ pos' = 1
                \/ pos' = 0
          /\ cands' # cands => (pos = 0 \/ pos' = 0)]_vars

\* two tweets of one score: the later one, stored after the earlier one, was
\* handled first and the earlier one is being replied to
C21_Witness ==
    /\ Len(cands) = 2
    /\ rpc = "generate"
    /\ pos = 2
    /\ cands[1].insight_score = cands[2].insight_score
    /\ Later(cands[1].timestamp, cands[2].timestamp)
    /\ cands[2].tweet_id = "t1"

\* the steps of an iteration from the generation of the reply on
Replying == {"generate", "page", "click", "save", "delay"}

\* C22: a reply cycle generates and posts a reply only for a tweet whose
\* insight_score is greater than 50, every row it stores is for such a
\* tweet, and the score of a failed scoring call is 50.
C22_NoReplyAtOrBelowThreshold ==
    /\ generate_insight_score(Failure) = 50
    /\ rpc \in Replying => cands[pos].insight_score > 50
    /\ \A i \in 1..Len(replies) :
          replies[i].status = "sent" =>
              \A j \in 1..Len(tweets) :
                  tweets[j].tweet_id = replies[i].original_tweet_id
                      => tweets[j].insight_score > 50

\* the cycle has passed a tweet of score 50 that has no reply
C22_Witness ==
    /\ rpc = "check"
    /\ pos = 2
    /\ cands[1].insight_score = 50
    /\ RepliesTo(replies, cands[1].tweet_id) = {}

\* C27: after the end of a reply action, successful or failed, the next
\* reply action of the cycle starts only once the delay has elapsed.
C27_DelayBetweenReplies ==
    [][rpc' = "check" => rpc \notin {"page", "click", "save"}]_vars

C36_OneSubmission == ps.clicks <= 1

\* C32: the sources a posts row records are tweet ids: no element of a
\* source list is the text of a stored tweet.
C32_SourcesAreTweetIds ==
    \A p \in 1..Len(posts) : \A k \in 1..Len(posts[p].source_tweets) :
        \A i \in 1..Len(tweets) :
            posts[p].source_tweets[k] # tweets[i].content

\* C34: when the handling of a candidate fails before its reply is sent (no
\* reply text, a failed page step, a failed click), the cycle writes no row
\* for it and goes on with the next candidate; it ends only when the failed
\* candidate was the last one.
C34_FailureGoesOn ==
    [][(rpc \in {"generate", "page", "click"} /\ rpc' \in {"check", "idle"})
          => /\ replies' = replies
             /\ IF pos < Len(cands)
                THEN rpc' = "check" /\ pos' = pos + 1 /\ cands' = cands
                ELSE rpc' = "idle"]_vars

\* the cycle is at its second candidate after the generation for the first
\* one returned nothing, and the first one has no row
C34_Witness ==
    /\ rpc = "check"
    /\ pos = 2
    /\ cands[1].insight_score > 50
    /\ reply_text \in {None, <<>>}
    /\ RepliesTo(replies, cands[1].tweet_id) = {}

\* C35: the tweet button is clicked at most once for a tweet_id: a click
\* never happens for a tweet that has a row of an earlier click.
C35_OneClickPerTweet ==
    rpc = "save" => RepliesTo(replies, cands[pos].tweet_id) = {}

\* C31: while the lookup of the current tweet has failed, the ingest makes
\* no enrichment call for it and does not reach save_tweet.
C31_FailedLookupAbandons ==
    \A w \in Ingesters :
        "lookup" \in data[w].failed => ipc[w] \notin SubCalls \cup {"save"}

\* C38: the jobs are registered and run only in a session that login
\* reported as logged in, the agent is started only from there, and a start
\* that fails at login or at the scheduler ends with the cleanup done: no
\* job registered, the browser closed.
C38_JobsOnlyAfterLogin ==
    /\ [](\A j \in JobIds : jobs[j].state # "off" => session = "logged_in")
    /\ [](agent = "started" => session = "logged_in")
    /\ [](agent = "failed" => jobs = NoJobs /\ session = "closed")
    /\ [][agent' = "started" => agent \in {"logged_in", "started"}]_vars

\* a start failed, at login or at the scheduler, and the cleanup is done
C38_Witness ==
    /\ agent = "failed"
    /\ session = "closed"
    /\ jobs = NoJobs

\* the steps of the loading loop
LoadSteps == {"load", "load_wait"}

\* C37: fetch_and_learn_tweets makes at most three attempts to load the
\* articles; during the loading it calls no text function and writes no
\* row; it starts the ingest only on the non-empty list an attempt found,
\* and otherwise it ends by raising.
C37_LoadAtMostThreeTimes ==
    /\ [](\A w \in Ingesters :
             /\ load[w].attempts <= 3
             /\ load[w].raised => ipc[w] = "idle" /\ load[w].articles = 0)
    /\ [][\A w \in Ingesters :
             ipc[w] \in LoadSteps =>
                /\ tweets' = tweets
                /\ ipc'[w] \in LoadSteps \cup {"extract", "idle"}
                /\ ipc'[w] = "extract" =>
                      load'[w].articles > 0 /\ left'[w] = load'[w].articles
                /\ ipc'[w] = "idle" => load'[w].raised]_vars

\* the third attempt failed too and the call raised, with nothing stored
C37_Witness ==
    /\ load["A"].attempts = 3
    /\ load["A"].raised
    /\ tweets = <<>>

====
